---------------------------- MODULE Spec2Model ----------------------------
(***************************************************************************)
(* A model of the tsutil crate: MPEG transport stream packet framing       *)
(* (src/src/packet.rs) and the PSI table layer (src/src/psi.rs).           *)
(*                                                                         *)
(* Representation.  A PacketData ([u8; 188]) and every byte slice is a     *)
(* sequence of bytes; the byte at Rust index i is element i + 1.  u8, u16  *)
(* and usize values are integers.  u32 and u64 values do not fit TLC's     *)
(* integers, so they are big-endian byte words (4 or 8 bytes, most         *)
(* significant first), with the machine's wrapping kept explicit.  A       *)
(* call that can panic returns [panic |-> BOOLEAN, val |-> ...]; an        *)
(* Option is [some |-> BOOLEAN, val |-> ...].                              *)
(***************************************************************************)
EXTENDS Integers, Sequences, FiniteSets, TLC

VARIABLES
    data,    \* the PacketData under work (the buffer a Packet wraps)
    origin,  \* the constructor that produced data, and its inputs
    view,    \* the table / entry slice the PSI walk currently holds
    nth,     \* how many next calls led to view
    op,      \* the operation that ran last
    arg,     \* its inputs
    ret      \* its result

vars == <<data, origin, view, nth, op, arg, ret>>

-----------------------------------------------------------------------------
(* Machine arithmetic on u8 / u16 / usize values held as integers.         *)

RECURSIVE BitAnd(_, _)
BitAnd(a, b) ==
    IF a = 0 \/ b = 0 THEN 0
    ELSE (a % 2) * (b % 2) + 2 * BitAnd(a \div 2, b \div 2)

RECURSIVE BitOr(_, _)
BitOr(a, b) ==
    IF a = 0 THEN b
    ELSE IF b = 0 THEN a
    ELSE (IF a % 2 = 1 \/ b % 2 = 1 THEN 1 ELSE 0) + 2 * BitOr(a \div 2, b \div 2)

RECURSIVE BitXor(_, _)
BitXor(a, b) ==
    IF a = 0 THEN b
    ELSE IF b = 0 THEN a
    ELSE ((a + b) % 2) + 2 * BitXor(a \div 2, b \div 2)

RECURSIVE Pow2(_)
Pow2(n) == IF n = 0 THEN 1 ELSE 2 * Pow2(n - 1)

\* x << k and x >> k on a u8 (bits shifted out are dropped, k < 8)
Shl8(x, k) == (x * Pow2(k)) % 256
Shr8(x, k) == x \div Pow2(k)

\* `x as u8`
AsU8(x) == x % 256

Byte == 0 .. 255

-----------------------------------------------------------------------------
(* u32 / u64 values as big-endian byte words.                              *)

\* The sequence f[1], ..., f[n], as a tuple of evaluated elements
Tuple(f, n) == SubSeq(f, 1, n)

ZeroW(n) == Tuple([i \in 1 .. n |-> 0], n)

\* self & mask
AndW(w, m) == Tuple([i \in 1 .. Len(w) |-> BitAnd(w[i], m[i])], Len(w))

\* self ^ mask
XorW(w, m) == Tuple([i \in 1 .. Len(w) |-> BitXor(w[i], m[i])], Len(w))

\* The byte of w that is j places from the least significant one (0 outside w).
LowByte(w, j) == IF j >= 0 /\ j < Len(w) THEN w[Len(w) - j] ELSE 0

\* w >> k, within the word's width
ShrW(w, k) ==
    LET q == k \div 8
        r == k % 8
    IN  Tuple([i \in 1 .. Len(w) |->
                  LET j == Len(w) - i
                  IN  (LowByte(w, j + q) \div Pow2(r))
                      + (LowByte(w, j + q + 1) % Pow2(r)) * Pow2(8 - r)],
              Len(w))

\* w << k, within the word's width: the bits shifted out are dropped
ShlW(w, k) ==
    LET q == k \div 8
        r == k % 8
    IN  Tuple([i \in 1 .. Len(w) |->
                  LET j == Len(w) - i
                  IN  ((LowByte(w, j - q) * Pow2(r)) % 256)
                      + (LowByte(w, j - q - 1) \div Pow2(8 - r))],
              Len(w))

\* `w as u8`, `w as u16`: the low bits
WordAsU8(w) == LowByte(w, 0)
WordAsU16(w) == LowByte(w, 1) * 256 + LowByte(w, 0)

\* `x as u64` of a narrower word: zero extension
AsU64(w) == ZeroW(8 - Len(w)) \o w

\* A u16 / small usize as a word of n bytes
RECURSIVE IntToW(_, _)
IntToW(x, n) == IF n = 0 THEN <<>> ELSE IntToW(x \div 256, n - 1) \o <<x % 256>>

\* a <= b for two words of one width
RECURSIVE LeqFrom(_, _, _)
LeqFrom(a, b, i) ==
    IF i > Len(a) THEN TRUE
    ELSE IF a[i] # b[i] THEN a[i] < b[i]
    ELSE LeqFrom(a, b, i + 1)

LeqW(a, b) == LeqFrom(a, b, 1)

\* a + b within the word's width: [val, overflow]
RECURSIVE AddFrom(_, _, _, _)
AddFrom(a, b, j, carry) ==
    IF j >= Len(a) THEN [val |-> <<>>, overflow |-> carry # 0]
    ELSE LET t == LowByte(a, j) + LowByte(b, j) + carry
             rest == AddFrom(a, b, j + 1, t \div 256)
         IN  [val |-> rest.val \o <<t % 256>>, overflow |-> rest.overflow]

AddW(a, b) == AddFrom(a, b, 0, 0)

\* The full product of two words, Len(a) + Len(b) bytes wide
RECURSIVE ColumnSum(_, _, _, _)
ColumnSum(a, b, k, i) ==
    IF i > k THEN 0
    ELSE LowByte(a, i) * LowByte(b, k - i) + ColumnSum(a, b, k, i + 1)

RECURSIVE MulFrom(_, _, _, _)
MulFrom(a, b, k, carry) ==
    IF k >= Len(a) + Len(b) THEN <<>>
    ELSE LET t == ColumnSum(a, b, k, 0) + carry
         IN  MulFrom(a, b, k + 1, t \div 256) \o <<t % 256>>

MulFull(a, b) == MulFrom(a, b, 0, 0)

\* a * b within the width of a: [val, overflow]
MulW(a, b) ==
    LET full == MulFull(a, b)
        n == Len(a)
    IN  [val |-> SubSeq(full, Len(full) - n + 1, Len(full)),
         overflow |-> SubSeq(full, 1, Len(full) - n) # ZeroW(Len(full) - n)]

\* w / d for a divisor below 2^30, by binary long division
RECURSIVE DivBits(_, _, _, _)
DivBits(rem, byte, d, k) ==
    IF k = 0 THEN [q |-> 0, r |-> rem]
    ELSE LET r1 == rem * 2 + ((byte \div Pow2(k - 1)) % 2)
             qb == IF r1 >= d THEN 1 ELSE 0
             rest == DivBits(r1 - qb * d, byte, d, k - 1)
         IN  [q |-> qb * Pow2(k - 1) + rest.q, r |-> rest.r]

RECURSIVE DivFrom(_, _, _, _)
DivFrom(w, d, i, rem) ==
    IF i > Len(w) THEN <<>>
    ELSE LET step == DivBits(rem, w[i], d, 8)
         IN  <<step.q>> \o DivFrom(w, d, i + 1, step.r)

DivW(w, d) == DivFrom(w, d, 1, 0)

-----------------------------------------------------------------------------
(* Slices.                                                                 *)

\* The byte at Rust index i
At(s, i) == s[i + 1]

\* s[i] = v
Put(s, i, v) == [s EXCEPT ![i + 1] = v]

\* consecutive indexed assignments s[at] = bytes[0], s[at + 1] = bytes[1], ...
PutAll(s, at, bytes) ==
    Tuple([i \in 1 .. Len(s) |->
              IF i - 1 >= at /\ i - 1 < at + Len(bytes)
              THEN bytes[i - at] ELSE s[i]],
          Len(s))

\* &s[from..to]; Rust panics unless from <= to <= s.len()
SliceOk(s, from, to) == from <= to /\ to <= Len(s)
Slice(s, from, to) == SubSeq(s, from + 1, to)

\* byteorder::BigEndian
read_u16(s) == At(s, 0) * 256 + At(s, 1)
read_u32(s) == <<At(s, 0), At(s, 1), At(s, 2), At(s, 3)>>

Ok(v) == [panic |-> FALSE, val |-> v]
Panic == [panic |-> TRUE, val |-> <<>>]
Some(v) == [some |-> TRUE, val |-> v]
None == [some |-> FALSE, val |-> <<>>]

-----------------------------------------------------------------------------
(* packet.rs: Packet, PacketHeader                                         *)

PacketLen == 188

\* type PacketData = [u8; 188]
PacketData == [1 .. PacketLen -> Byte]

\* Packet::new reads the header word from the first four bytes.
header(d) == read_u32(Slice(d, 0, 4))

\* create_packet with the PID's high bits not masked into byte 1 (the
\* `& (0xE0 | pid >> 8)` of line 65 left out)
create_packet_nomask(p_tei, p_pusi, p_priority, p_pid, p_tsc, p_afc, p_cc) ==
    LET pkt0 == Tuple([i \in 1 .. PacketLen |-> 255], PacketLen)
        b1a == IF ~p_tei THEN BitXor(At(pkt0, 1), 128) ELSE At(pkt0, 1)
        b1b == IF ~p_pusi THEN BitXor(b1a, 64) ELSE b1a
        b1c == IF ~p_priority THEN BitXor(b1b, 32) ELSE b1b
        b2 == BitAnd(At(pkt0, 2), AsU8(BitAnd(p_pid, 255)))
        b3 == BitAnd(Shl8(p_tsc, 6), 192) + BitAnd(Shl8(p_afc, 4), 48)
              + BitAnd(p_cc, 15)
    IN  Put(Put(Put(Put(pkt0, 0, 71), 1, b1c), 2, b2), 3, b3)

create_packet(p_tei, p_pusi, p_priority, p_pid, p_tsc, p_afc, p_cc) ==
    LET pkt0 == Tuple([i \in 1 .. PacketLen |-> 255], PacketLen)
        b1a == IF ~p_tei THEN BitXor(At(pkt0, 1), 128) ELSE At(pkt0, 1)
        b1b == IF ~p_pusi THEN BitXor(b1a, 64) ELSE b1a
        b1c == IF ~p_priority THEN BitXor(b1b, 32) ELSE b1b
        b1 == BitAnd(b1c, AsU8(BitOr(224, p_pid \div 256)))
        b2 == BitAnd(At(pkt0, 2), AsU8(BitAnd(p_pid, 255)))
        b3 == BitAnd(Shl8(p_tsc, 6), 192) + BitAnd(Shl8(p_afc, 4), 48)
              + BitAnd(p_cc, 15)
    IN  Put(Put(Put(Put(pkt0, 0, 71), 1, b1), 2, b2), 3, b3)

\* create_packet_with_payload that stuffs a short payload: AFC 3, an
\* adaptation field of 183 - n bytes, the payload at the end of the frame
create_packet_with_payload_stuffed(p_tei, p_pusi, p_priority, p_pid, p_tsc, p_afc, p_cc, payload) ==
    LET payload_len == IF Len(payload) > 184 THEN 184 ELSE Len(payload)
        plain == create_packet(p_tei, p_pusi, p_priority, p_pid, p_tsc,
                               p_afc, p_cc)
        stuffed == create_packet(p_tei, p_pusi, p_priority, p_pid, p_tsc,
                                 3, p_cc)
    IN  IF payload_len = 184
        THEN PutAll(plain, 4, SubSeq(payload, 1, payload_len))
        ELSE PutAll(Put(stuffed, 4, 183 - payload_len), 188 - payload_len,
                    SubSeq(payload, 1, payload_len))

\* the payload is cut to 184 bytes and copied to data[4..]
create_packet_with_payload(p_tei, p_pusi, p_priority, p_pid, p_tsc, p_afc, p_cc, payload) ==
    LET pkt == create_packet(p_tei, p_pusi, p_priority, p_pid, p_tsc, p_afc,
                             p_cc)
        payload_len == IF Len(payload) > 184 THEN 184 ELSE Len(payload)
    IN  PutAll(pkt, 4, SubSeq(payload, 1, payload_len))

\* with_cc that forgets to keep the upper nibble of byte 3
with_cc_clobber(d, p_cc) ==
    Put(d, 3, BitAnd(p_cc, 15))

with_cc(d, p_cc) ==
    Put(d, 3, BitAnd(At(d, 3), 240) + BitAnd(p_cc, 15))

sync(h) == WordAsU8(ShrW(AndW(h, <<255, 0, 0, 0>>), 24))
tei(h) == AndW(h, <<0, 128, 0, 0>>) # ZeroW(4)
pusi(h) == AndW(h, <<0, 64, 0, 0>>) # ZeroW(4)
priority(h) == AndW(h, <<0, 32, 0, 0>>) # ZeroW(4)
pid(h) == WordAsU16(ShrW(AndW(h, <<0, 31, 255, 0>>), 8))
tsc(h) == WordAsU8(ShrW(AndW(h, <<0, 0, 0, 192>>), 6))
afc(h) == WordAsU8(ShrW(AndW(h, <<0, 0, 0, 48>>), 4))
has_adaptation_field(h) == 0 # BitAnd(afc(h), 2)
has_payload(h) == 0 # BitAnd(afc(h), 1)
cc(h) == WordAsU8(AndW(h, <<0, 0, 0, 15>>))

aflen(d) == At(d, 4)

\* payload_offset that also skips the length byte
payload_offset_skiplen(d) ==
    IF has_adaptation_field(header(d)) THEN 4 + aflen(d) + 1 ELSE 4

\* Payload::payload_data: the slice, as [from, bytes]
payload_offset(d) ==
    IF has_adaptation_field(header(d)) THEN 4 + aflen(d) ELSE 4

payload_data(d) ==
    LET offset == payload_offset(d)
    IN  IF SliceOk(d, offset, 188)
        THEN Ok([from |-> offset, bytes |-> Slice(d, offset, 188)])
        ELSE Panic

-----------------------------------------------------------------------------
(* packet.rs: AdaptationField                                              *)

has_pcr(d) == 0 # BitAnd(At(d, 5), 16)
has_opcr(d) == 0 # BitAnd(At(d, 5), 8)
has_splice_countdown(d) == 0 # BitAnd(At(d, 5), 4)
has_transport_private_data(d) == 0 # BitAnd(At(d, 5), 2)

\* Rust parses line 178 as high_int << (1 + (low_short & (0x8000 >> 15))):
\* + binds tighter than <<, and >> tighter than &.
read_pcr_data(buf) ==
    LET high_int == AsU64(read_u32(Slice(buf, 0, 4)))
        low_short == read_u16(Slice(buf, 4, 6))
        upper == ShlW(high_int, 1 + BitAnd(low_short, 32768 \div Pow2(15)))
        lower == BitAnd(low_short, 511)
    IN  AddW(MulW(upper, IntToW(300, 8)).val, IntToW(lower, 8)).val

Billion == <<0, 0, 0, 0, 59, 154, 202, 0>>

\* (pcr * 1_000_000_000) / 27_000_000 in u64.  The product overflows for
\* pcr > 18_446_744_073: a build with overflow checks panics there, a build
\* without them goes on with the product mod 2^64.
pcr_to_nanos(ticks) ==
    LET product == MulW(ticks, Billion)
    IN  IF product.overflow
        THEN {Panic, Ok(DivW(product.val, 27000000))}
        ELSE {Ok(DivW(product.val, 27000000))}

pcr(d) ==
    IF has_pcr(d) THEN read_pcr_data(Slice(d, 6, 13)) ELSE ZeroW(8)

pcr_nanos(d) == pcr_to_nanos(pcr(d))

opcr(d) ==
    IF has_pcr(d) THEN read_pcr_data(Slice(d, 13, 20)) ELSE pcr(d)

opcr_nanos(d) == pcr_to_nanos(opcr(d))

splice_countdown(d) ==
    IF has_splice_countdown(d)
    THEN IF has_pcr(d)
         THEN IF has_opcr(d) THEN At(d, 20) ELSE At(d, 13)
         ELSE IF has_opcr(d) THEN At(d, 13) ELSE At(d, 6)
    ELSE 0

transport_private_data_len(d) ==
    IF has_transport_private_data(d)
    THEN IF has_splice_countdown(d)
         THEN IF has_pcr(d)
              THEN IF has_opcr(d) THEN At(d, 21) ELSE At(d, 14)
              ELSE IF has_opcr(d) THEN At(d, 14) ELSE At(d, 7)
         ELSE IF has_pcr(d)
              THEN IF has_opcr(d) THEN At(d, 20) ELSE At(d, 14)
              ELSE IF has_opcr(d) THEN At(d, 14) ELSE At(d, 7)
    ELSE 0

\* where transport_private_data starts its range
transport_private_data_start(d) ==
    IF has_splice_countdown(d)
    THEN IF has_pcr(d)
         THEN IF has_opcr(d) THEN 22 ELSE 15
         ELSE IF has_opcr(d) THEN 15 ELSE 8
    ELSE IF has_pcr(d)
         THEN IF has_opcr(d) THEN 21 ELSE 15
         ELSE IF has_opcr(d) THEN 15 ELSE 8

\* the slice, as [from, bytes]
transport_private_data(d) ==
    IF has_transport_private_data(d)
    THEN LET trans_len == transport_private_data_len(d)
             start == transport_private_data_start(d)
         IN  IF SliceOk(d, start, start + trans_len)
             THEN Ok([from |-> start,
                      bytes |-> Slice(d, start, start + trans_len)])
             ELSE Panic
    ELSE Ok([from |-> 0, bytes |-> <<>>])

-----------------------------------------------------------------------------
(* psi.rs: the CRC                                                         *)

Polynomial == <<4, 193, 29, 183>>

\* the eight shift-and-compare steps of one byte (crc32 is a u32, dat a u8)
RECURSIVE crc_steps(_, _, _)
crc_steps(crc, dat, k) ==
    IF k = 0 THEN crc
    ELSE IF LeqW(<<128, 0, 0, 0>>, crc) # (dat >= 128)
    THEN crc_steps(XorW(ShlW(crc, 1), Polynomial), Shl8(dat, 1), k - 1)
    ELSE crc_steps(ShlW(crc, 1), Shl8(dat, 1), k - 1)

\* the values of a u32
U32 == [1 .. 4 -> Byte]

\* the iterations byte_pos .. end - 1 of the loop over to_sum, entered with
\* the u32 accumulator crc32; a run of several iterations is its first half
\* followed by its second half
RECURSIVE crc_loop(_, _, _, _)
crc_loop(crc, to_sum, byte_pos, end) ==
    IF byte_pos >= end \/ crc \notin U32 THEN crc
    ELSE IF end - byte_pos = 1 THEN crc_steps(crc, At(to_sum, byte_pos), 8)
    ELSE LET mid == (byte_pos + end) \div 2
         IN  crc_loop(crc_loop(crc, to_sum, byte_pos, mid), to_sum, mid, end)

\* calc_crc32 that sums the trailing four bytes too
calc_crc32_whole(section_data_in) ==
    IF Len(section_data_in) >= 4
    THEN crc_loop(<<255, 255, 255, 255>>, section_data_in, 0,
                  Len(section_data_in))
    ELSE ZeroW(4)

calc_crc32(section_data_in) ==
    LET section_len == Len(section_data_in)
        to_sum == Slice(section_data_in, 0, section_len - 4)
    IN  IF section_len >= 4
        THEN crc_loop(<<255, 255, 255, 255>>, to_sum, 0, Len(to_sum))
        ELSE ZeroW(4)

-----------------------------------------------------------------------------
(* psi.rs: PSI, TableHeader, TableSyntaxSection                            *)

\* PSI::tables: Option<&[u8]>, or a panic (an empty payload, or a pointer
\* field that reaches past the payload)
tables(d) ==
    IF has_payload(header(d))
    THEN LET p == payload_data(d)
         IN  IF p.panic \/ Len(p.val.bytes) = 0 THEN Panic
             ELSE LET bytes == p.val.bytes
                      padding == At(bytes, 0)
                  IN  IF SliceOk(bytes, padding + 1, Len(bytes))
                      THEN Ok(Some(Slice(bytes, padding + 1, Len(bytes))))
                      ELSE Panic
    ELSE Ok(None)

table_id(s) == At(s, 0)
has_syntax_section(s) == BitAnd(At(s, 1), 128) # 0
section_length(s) == BitAnd(1023, read_u16(Slice(s, 1, 3)))

\* self[..3 + section_length]; reading the length needs three bytes
section_data(s) ==
    IF Len(s) < 3 THEN Panic
    ELSE IF SliceOk(s, 0, 3 + section_length(s))
         THEN Ok(Slice(s, 0, 3 + section_length(s)))
         ELSE Panic

next(s) ==
    IF Len(s) < 3 THEN Panic
    ELSE IF Len(s) > 3 + section_length(s)
         THEN LET following == Slice(s, 3 + section_length(s), Len(s))
              IN  IF table_id(following) < 255
                  THEN Ok(Some(following)) ELSE Ok(None)
         ELSE Ok(None)

\* the last four bytes, big-endian; table_len - 4 needs four bytes
crc32(s) ==
    IF Len(s) < 4 THEN Panic
    ELSE Ok(read_u32(Slice(s, Len(s) - 4, Len(s))))

\* TableSyntaxSection: reads of fixed positions (out of range below six,
\* seven, eight bytes)
valid_syntax(s) == BitAnd(At(s, 5), 192) = 192
table_id_ext(s) == read_u16(Slice(s, 3, 5))
version(s) == BitAnd(Shr8(At(s, 5), 1), 31)
current(s) == BitAnd(At(s, 5), 1) = 1
section_num(s) == At(s, 6)
last_section_num(s) == At(s, 7)

\* &self[8..table_len - 4]: table_len - 4 needs four bytes and the range
\* twelve
table_data(s) ==
    IF Len(s) < 12 THEN Panic ELSE Ok(Slice(s, 8, Len(s) - 4))

\* PAT
valid_pat(s) == BitAnd(At(s, 2), 224) = 224
program_num(s) == read_u16(Slice(s, 0, 2))
program_map_pid(s) == BitAnd(8191, read_u16(Slice(s, 2, 4)))
next_program(s) == IF Len(s) >= 8 THEN Some(Slice(s, 4, Len(s))) ELSE None

\* PMT
valid_pmt(s) == BitAnd(At(s, 0), 224) = 224 /\ BitAnd(At(s, 2), 240) = 240
pcr_pid(s) == BitAnd(8191, read_u16(Slice(s, 0, 2)))
program_info_len(s) == BitAnd(1023, read_u16(Slice(s, 2, 4)))

descriptor_data(s) ==
    IF Len(s) < 4 THEN Panic
    ELSE IF program_info_len(s) > 0
         THEN IF SliceOk(s, 4, 4 + program_info_len(s))
              THEN Ok(Some(Slice(s, 4, 4 + program_info_len(s))))
              ELSE Panic
         ELSE Ok(None)

elementary_streams(s) ==
    IF Len(s) < 4 THEN Panic
    ELSE IF SliceOk(s, 4 + program_info_len(s), Len(s))
         THEN Ok(Slice(s, 4 + program_info_len(s), Len(s)))
         ELSE Panic

\* ElementaryStream
valid_stream(s) == BitAnd(At(s, 1), 224) = 224 /\ BitAnd(At(s, 3), 240) = 240
stream_type(s) == At(s, 0)
stream_pid(s) == BitAnd(8191, read_u16(Slice(s, 1, 3)))
es_info_len(s) == BitAnd(1023, read_u16(Slice(s, 3, 5)))

es_info(s) ==
    IF Len(s) < 5 THEN Panic
    ELSE IF SliceOk(s, 5, 5 + es_info_len(s))
         THEN Ok(Slice(s, 5, 5 + es_info_len(s)))
         ELSE Panic

next_stream(s) ==
    IF Len(s) < 5 THEN Panic
    ELSE IF Len(s) > 5 + es_info_len(s)
         THEN LET following == Slice(s, 5 + es_info_len(s), Len(s))
              IN  IF stream_type(following) < 255
                  THEN Ok(Some(following)) ELSE Ok(None)
         ELSE Ok(None)

-----------------------------------------------------------------------------
(* psi.rs: synthesis                                                       *)

\* insert_pat_payload that stamps the CRC of the whole 16 bytes, trailer
\* placeholder included
insert_pat_payload_whole(offset, num, p_pid, pat) ==
    LET body == <<0, BitOr(128, 48), 13, 0, 1, 193, 0, 0,
                  AsU8(num \div 256), AsU8(BitAnd(num, 255)),
                  BitOr(224, AsU8(p_pid \div 256)), AsU8(BitAnd(p_pid, 255))>>
        filled == PutAll(pat, offset, body)
        crc == calc_crc32_whole(Slice(filled, offset, offset + 16))
    IN  PutAll(filled, offset + 12, crc)

\* insert_pat_payload that leaves the three reserved bits above the PID clear
insert_pat_payload_noreserved(offset, num, p_pid, pat) ==
    LET body == <<0, BitOr(128, 48), 13, 0, 1, 193, 0, 0,
                  AsU8(num \div 256), AsU8(BitAnd(num, 255)),
                  AsU8(p_pid \div 256), AsU8(BitAnd(p_pid, 255))>>
        filled == PutAll(pat, offset, body)
        crc == calc_crc32(Slice(filled, offset, offset + 16))
    IN  PutAll(filled, offset + 12, crc)

insert_pat_payload(offset, num, p_pid, pat) ==
    LET body == <<0, BitOr(128, 48), 13, 0, 1, 193, 0, 0,
                  AsU8(num \div 256), AsU8(BitAnd(num, 255)),
                  BitOr(224, AsU8(p_pid \div 256)), AsU8(BitAnd(p_pid, 255))>>
        filled == PutAll(pat, offset, body)
        crc == calc_crc32(Slice(filled, offset, offset + 16))
    IN  PutAll(filled, offset + 12, crc)

\* the loop of create_pat_packet over pids, entered at prog_num with the
\* frame pat
RECURSIVE pat_sections(_, _, _, _)
pat_sections(pids, pointer, pat, prog_num) ==
    IF prog_num >= Len(pids) \/ pat \notin PacketData THEN pat
    ELSE pat_sections(pids, pointer,
                      insert_pat_payload(pointer + 5 + 16 * prog_num,
                                         prog_num + 1, pids[prog_num + 1], pat),
                      prog_num + 1)

\* 188 - 5 - 16 * pid_count is a usize: with twelve or more PIDs it is
\* negative.  A build with overflow checks panics at the subtraction; one
\* without wraps it, and the first pat[offset] = 0 is then out of range and
\* panics.
create_pat_packet(pids, p_cc) ==
    LET pat == create_packet(FALSE, TRUE, FALSE, 0, 0, 1, p_cc)
        pid_count == Len(pids)
        pointer == 188 - 5 - 16 * pid_count
        pointed == Put(pat, 4, AsU8(pointer))
    IN  IF pointer < 0 THEN Panic
        ELSE Ok(pat_sections(pids, pointer, pointed, 0))

\* the loop of create_pmt_packet over pid_type_pairs, entered at pair_num
\* with the frame pmt; pair_num grows by one per pair
RECURSIVE pmt_streams(_, _, _, _)
pmt_streams(pairs, offset, pmt, pair_num) ==
    IF pair_num >= Len(pairs) \/ pmt \notin PacketData THEN pmt
    ELSE LET pair == pairs[pair_num + 1]
             entry == <<pair[2], 224 + AsU8(BitAnd(pair[1] \div 256, 31)),
                        AsU8(BitAnd(pair[1], 255)), 240, 0>>
         IN  pmt_streams(pairs, offset,
                         PutAll(pmt, offset + 12 + pair_num, entry),
                         pair_num + 1)

\* create_pmt_packet from the pointer byte and the section offset on
pmt_section(pmt, pointer_byte, offset, pairs) ==
    LET stream_count == Len(pairs)
        head == <<2, BitOr(128, 48), AsU8(13 + AsU8(5 * AsU8(stream_count))),
                  0, 1, 193, 0, 0, 255, 255, 240, 0>>
        headed == PutAll(Put(pmt, 4, pointer_byte), offset, head)
        filled == pmt_streams(pairs, offset, headed, 0)
        crc == calc_crc32(
                   Slice(filled, offset, offset + 16 + 5 * stream_count))
    IN  PutAll(filled, offset + 12 + 5 * stream_count, crc)

\* The outcomes of create_pmt_packet.  188 - 5 - 16 - 5 * stream_count is a
\* usize: with 34 or more streams it is negative.  A build with overflow
\* checks panics there.  One without wraps it to 2^64 - k; offset = pointer + 5
\* wraps back into the frame when k <= 5 (34 streams: offset 2) and the section
\* is written over the header, otherwise pmt[offset] is out of range and panics.
create_pmt_packet(p_pid, pairs, p_cc) ==
    LET pmt == create_packet(FALSE, TRUE, FALSE, p_pid, 0, 1, p_cc)
        pointer == 188 - 5 - 16 - 5 * Len(pairs)
    IN  IF pointer >= 0
        THEN {Ok(pmt_section(pmt, AsU8(pointer), pointer + 5, pairs))}
        ELSE {Panic,
              IF pointer + 5 >= 0
              THEN Ok(pmt_section(pmt, 256 - ((0 - pointer) % 256),
                                  pointer + 5, pairs))
              ELSE Panic}

-----------------------------------------------------------------------------
(* Inputs.                                                                 *)

\* lib.rs fixtures: the bytes before the trailing 0xFF stuffing
PatFixtureHead ==
    <<71, 64, 0, 16, 0, 0, 176, 13, 0, 1, 193, 0, 0, 0, 1, 240, 0, 42, 177,
      4, 178>>

PmtFixtureHead ==
    <<71, 80, 0, 16, 0, 2, 176, 18, 0, 1, 193, 0, 0, 225, 0, 240, 0, 27,
      225, 0, 240, 0, 21, 189, 77, 86>>

\* the validate_payload fixture: AFC = 3, adaptation-field length 7, PCR flag
PayloadFixture ==
    <<
      71, 65, 0, 48, 7, 80, 0, 0, 123, 12, 126, 0, 0, 0, 1, 224,
      0, 0, 128, 192, 10, 49, 0, 9, 18, 249, 17, 0, 7, 216, 97, 0,
      0, 0, 1, 9, 240, 0, 0, 0, 1, 103, 244, 0, 40, 145, 155, 40,
      15, 0, 68, 252, 78, 2, 32, 0, 0, 3, 0, 32, 0, 0, 6, 1,
      227, 6, 50, 192, 0, 0, 0, 1, 104, 235, 227, 201, 32, 0, 0, 1,
      6, 5, 255, 255, 170, 220, 69, 233, 189, 230, 217, 72, 183, 150, 44, 216,
      32, 217, 35, 238, 239, 120, 50, 54, 52, 32, 45, 32, 99, 111, 114, 101,
      32, 49, 53, 53, 32, 114, 50, 57, 49, 55, 32, 48, 97, 56, 52, 100,
      57, 56, 32, 45, 32, 72, 46, 50, 54, 52, 47, 77, 80, 69, 71, 45,
      52, 32, 65, 86, 67, 32, 99, 111, 100, 101, 99, 32, 45, 32, 67, 111,
      112, 121, 108, 101, 102, 116, 32, 50, 48, 48, 51, 45, 50, 48, 49, 56,
      32, 45, 32, 104, 116, 116, 112, 58, 47, 47, 119, 119>>

\* hex_to_bin of a fixture whose tail is all stuffing
Padded(head, fill) ==
    Tuple([i \in 1 .. PacketLen |-> IF i <= Len(head) THEN head[i] ELSE fill],
          PacketLen)

PatFixture == Padded(PatFixtureHead, 255)
PmtFixture == Padded(PmtFixtureHead, 255)

\* A caller-supplied buffer whose bytes all differ, so that a wrong offset reads
\* a wrong value
PatternByte(i) == (i * 37 + 11) % 256

\* ... with a sync byte, the given adaptation field control and length byte
AfBuffer(p_afc, len) ==
    Tuple([i \in 1 .. PacketLen |->
              CASE i = 1 -> 71
                [] i = 4 -> p_afc * 16 + 5
                [] i = 5 -> len
                [] OTHER -> PatternByte(i - 1)],
          PacketLen)

PidInputs == {0, 6844, 8448, 65535}
TscInputs == {0, 1, 2, 7}
AfcInputs == {0, 1, 2, 3, 7}
CcCreateInputs == {9, 21, 255}
CcInputs == {3, 20}

\* Payloads handed to create_packet_with_payload: empty, one byte, the eight
\* bytes of synth_packet_with_small_payload, one byte short of the payload
\* area, the 184 bytes of synth_packet_with_large_payload, one byte too many
SmallPayload == <<222, 173, 190, 239, 202, 254, 186, 190>>
Filled(byte, n) == Tuple([i \in 1 .. n |-> byte], n)
PayloadInputs ==
    {<<>>, <<0>>, SmallPayload, Filled(170, 183), Filled(187, 184),
     Filled(204, 185)}
PayloadPidInputs == {0, 6844}
PayloadCcInputs == {9}

FramingBuffers ==
    {PatFixture, PmtFixture, PayloadFixture}
        \cup {AfBuffer(a, l) : a \in 0 .. 3, l \in Byte}

\* Six-byte PCR windows: the fixture's, bit 15 of the low half set, bit 0 of
\* the low half set, a clock past eleven minutes, all ones, all zeros
PcrWindows ==
    {<<0, 0, 123, 12, 126, 0>>, <<0, 0, 0, 0, 128, 0>>, <<0, 0, 0, 1, 0, 1>>,
     <<16, 0, 0, 0, 0, 0>>, <<255, 255, 255, 255, 255, 255>>,
     <<0, 0, 0, 0, 0, 0>>}

OpcrWindows ==
    {<<0, 0, 123, 12, 126, 0>>, <<0, 1, 0, 0, 129, 255>>,
     <<32, 0, 0, 0, 0, 0>>}

\* Byte 5: every combination of the pcr, opcr, splice_countdown and
\* transport_private_data flags, with the other four flags clear or set
FlagInputs ==
    {16 * a + 8 * b + 4 * c + 2 * e + g :
        a \in 0 .. 1, b \in 0 .. 1, c \in 0 .. 1, e \in 0 .. 1, g \in {0, 225}}

\* A caller-supplied packet with AFC = 3, the given flags, a PCR at bytes 6..11
\* and an OPCR at bytes 12..17
AdaptationBuffer(flags, w1, w2) ==
    Tuple([i \in 1 .. PacketLen |->
              CASE i = 1 -> 71
                [] i = 4 -> 53
                [] i = 5 -> 40
                [] i = 6 -> flags
                [] i \in 7 .. 12 -> w1[i - 6]
                [] i \in 13 .. 18 -> w2[i - 12]
                [] OTHER -> PatternByte(i - 1)],
          PacketLen)

AdaptationBuffers ==
    {PayloadFixture}
        \cup {AdaptationBuffer(f, w1, w2) :
                f \in FlagInputs, w1 \in PcrWindows, w2 \in OpcrWindows}

-----------------------------------------------------------------------------
(* The operations as steps of a caller: one construction, then decoding.   *)

Init ==
    /\ data = Tuple([i \in 1 .. PacketLen |-> 0], PacketLen)
    /\ origin = [by |-> "none", args |-> <<>>]
    /\ view = None
    /\ nth = 0
    /\ op = "init"
    /\ arg = <<>>
    /\ ret = Ok(<<>>)

CreatePacket ==
    /\ origin.by = "none"
    /\ \E t \in BOOLEAN, u \in BOOLEAN, p \in BOOLEAN, pd \in PidInputs,
          ts \in TscInputs, af \in AfcInputs, c \in CcCreateInputs :
          /\ data' = create_packet(t, u, p, pd, ts, af, c)
          /\ arg' = [tei |-> t, pusi |-> u, priority |-> p, pid |-> pd,
                     tsc |-> ts, afc |-> af, cc |-> c]
          /\ origin' = [by |-> "create_packet", args |-> arg']
    /\ op' = "create_packet"
    /\ ret' = Ok(<<>>)
    /\ view' = None
    /\ nth' = 0

CreatePacketWithPayload ==
    /\ origin.by = "none"
    /\ \E t \in BOOLEAN, u \in BOOLEAN, p \in BOOLEAN, pd \in PayloadPidInputs,
          ts \in TscInputs, af \in AfcInputs, c \in PayloadCcInputs,
          pl \in PayloadInputs :
          /\ data' = create_packet_with_payload(t, u, p, pd, ts, af, c, pl)
          /\ arg' = [tei |-> t, pusi |-> u, priority |-> p, pid |-> pd,
                     tsc |-> ts, afc |-> af, cc |-> c, payload |-> pl]
          /\ origin' = [by |-> "create_packet_with_payload", args |-> arg']
    /\ op' = "create_packet_with_payload"
    /\ ret' = Ok(<<>>)
    /\ view' = None
    /\ nth' = 0

\* Packet::new over bytes the caller supplies
NewFrom(buffers) ==
    /\ origin.by = "none"
    /\ \E b \in buffers :
          /\ data' = b
          /\ arg' = <<>>
    /\ origin' = [by |-> "new", args |-> <<>>]
    /\ op' = "new"
    /\ ret' = Ok(<<>>)
    /\ view' = None
    /\ nth' = 0

NewFraming == NewFrom(FramingBuffers)

\* with_cc returns a new PacketData; slices of the old one are not its
WithCc ==
    /\ \E c \in CcInputs :
          /\ data' = with_cc(data, c)
          /\ arg' = [data |-> data, cc |-> c]
    /\ op' = "with_cc"
    /\ ret' = Ok(<<>>)
    /\ view' = None
    /\ nth' = 0
    /\ UNCHANGED origin

PayloadData ==
    /\ op' = "payload_data"
    /\ arg' = <<>>
    /\ ret' = payload_data(data)
    /\ UNCHANGED <<data, origin, view, nth>>

Next ==
    \/ CreatePacket
    \/ CreatePacketWithPayload
    \/ NewFraming
    \/ WithCc
    \/ PayloadData

Spec == Init /\ [][Next]_vars

-----------------------------------------------------------------------------
(* Claims on packet framing.                                               *)

\* C1: a packet built by create_packet decodes to its inputs: sync 0x47, the
\* three flags as given, pid mod 2^13, tsc mod 4, afc mod 4, cc mod 16, the
\* adaptation-field and payload predicates by the AFC truth table, and bytes
\* 4..187 all 0xFF.
C1_HeaderRoundTrip ==
    op = "create_packet" =>
        LET h == header(data)
        IN  /\ sync(h) = 71
            /\ tei(h) = arg.tei
            /\ pusi(h) = arg.pusi
            /\ priority(h) = arg.priority
            /\ pid(h) = arg.pid % 8192
            /\ tsc(h) = arg.tsc % 4
            /\ afc(h) = arg.afc % 4
            /\ cc(h) = arg.cc % 16
            /\ has_adaptation_field(h) = (afc(h) \in {2, 3})
            /\ has_payload(h) = (afc(h) \in {1, 3})
            /\ \A i \in 4 .. 187 : At(data, i) = 255

C1_Witness ==
    /\ op = "create_packet"
    /\ arg.pid > 8191
    /\ arg.tsc > 3
    /\ arg.afc = 7
    /\ arg.cc > 15
    /\ arg.tei /\ ~arg.pusi /\ arg.priority
    /\ has_adaptation_field(header(data)) /\ has_payload(header(data))

\* C2: with_cc changes the low nibble of byte 3 to cc mod 16 and nothing else.
C2_WithCcOnlyCc ==
    op = "with_cc" =>
        /\ cc(header(data)) = arg.cc % 16
        /\ At(data, 3) \div 16 = At(arg.data, 3) \div 16
        /\ \A i \in (0 .. 187) \ {3} : At(data, i) = At(arg.data, i)

C2_Witness ==
    /\ op = "with_cc"
    /\ arg.cc > 15
    /\ cc(header(arg.data)) # cc(header(data))
    /\ afc(header(data)) = 3
    /\ tsc(header(data)) = 3

\* C3 (as claimed): payload_data starts at 4 + (aflen + 1) when the packet has
\* an adaptation field, at 4 otherwise, and runs through byte 187.
C3_PayloadAfterLengthByte ==
    LET start == IF has_adaptation_field(header(data))
                 THEN 4 + (aflen(data) + 1) ELSE 4
    IN  (op = "payload_data" /\ start <= 188) =>
            /\ ~ret.panic
            /\ ret.val.from = start
            /\ ret.val.bytes = Slice(data, start, 188)

\* C4: with AFC = 3 and length byte L <= 183, the payload has 184 - L bytes.
C4_PayloadLenAfc3 ==
    (op = "payload_data" /\ afc(header(data)) = 3 /\ aflen(data) <= 183) =>
        /\ ~ret.panic
        /\ Len(ret.val.bytes) = 184 - aflen(data)

C4_Witness ==
    /\ op = "payload_data"
    /\ afc(header(data)) = 3
    /\ aflen(data) = 183
    /\ ~ret.panic
    /\ Len(ret.val.bytes) = 1

C14_ShortPayloadStuffed ==
    (/\ origin.by = "create_packet_with_payload"
     /\ origin.args.afc = 1
     /\ op \in {"create_packet_with_payload", "with_cc"}) =>
        LET n == Len(origin.args.payload)
            h == header(data)
        IN  /\ n < 184 =>
                  /\ afc(h) = 3
                  /\ has_adaptation_field(h)
                  /\ aflen(data) = 183 - n
            /\ n = 184 =>
                  /\ afc(h) = 1
                  /\ ~has_adaptation_field(h)

\* C15 (as claimed): payload_data over a buffer whose adaptation-field length
\* reaches past the 188-byte frame hands the caller a value, an error or a
\* view inside the buffer; it does not abort.
C15_DecodeNeverAborts ==
    (op = "payload_data" /\ payload_offset(data) > 188) =>
        /\ ~ret.panic
        /\ ret.val.from + Len(ret.val.bytes) <= 188

-----------------------------------------------------------------------------
(* Adaptation field decoding.                                              *)

NewAdaptation == NewFrom(AdaptationBuffers)

Pcr ==
    /\ op' = "pcr"
    /\ arg' = <<>>
    /\ ret' = Ok(pcr(data))
    /\ UNCHANGED <<data, origin, view, nth>>

Opcr ==
    /\ op' = "opcr"
    /\ arg' = <<>>
    /\ ret' = Ok(opcr(data))
    /\ UNCHANGED <<data, origin, view, nth>>

PcrNanos ==
    /\ op' = "pcr_nanos"
    /\ arg' = [ticks |-> pcr(data)]
    /\ ret' \in pcr_nanos(data)
    /\ UNCHANGED <<data, origin, view, nth>>

OpcrNanos ==
    /\ op' = "opcr_nanos"
    /\ arg' = [ticks |-> opcr(data)]
    /\ ret' \in opcr_nanos(data)
    /\ UNCHANGED <<data, origin, view, nth>>

SpliceCountdown ==
    /\ op' = "splice_countdown"
    /\ arg' = <<>>
    /\ ret' = Ok(splice_countdown(data))
    /\ UNCHANGED <<data, origin, view, nth>>

TransportPrivateDataLen ==
    /\ op' = "transport_private_data_len"
    /\ arg' = <<>>
    /\ ret' = Ok(transport_private_data_len(data))
    /\ UNCHANGED <<data, origin, view, nth>>

TransportPrivateData ==
    /\ op' = "transport_private_data"
    /\ arg' = <<>>
    /\ ret' = transport_private_data(data)
    /\ UNCHANGED <<data, origin, view, nth>>

NextAdaptation ==
    \/ NewAdaptation
    \/ Pcr
    \/ Opcr
    \/ PcrNanos
    \/ OpcrNanos
    \/ SpliceCountdown
    \/ TransportPrivateDataLen
    \/ TransportPrivateData

SpecAdaptation == Init /\ [][NextAdaptation]_vars

-----------------------------------------------------------------------------
(* Claims on the adaptation field.                                         *)

Flag(b) == IF b THEN 1 ELSE 0

\* The offsets the cumulative-length rule gives
SpliceOffsetByRule(d) == 6 + 6 * Flag(has_pcr(d)) + 6 * Flag(has_opcr(d))
PrivateLenOffsetByRule(d) ==
    SpliceOffsetByRule(d) + Flag(has_splice_countdown(d))

\* C5 (as claimed): splice_countdown reads the byte at 6 + 6*[pcr] + 6*[opcr],
\* transport_private_data_len the byte after the splice countdown if that is
\* present, transport_private_data is the range of that length right after the
\* length byte, and an accessor whose flag is clear gives 0 or the empty range.
C5_CascadingOffsets ==
    /\ op = "splice_countdown" =>
           ret.val = IF has_splice_countdown(data)
                     THEN At(data, SpliceOffsetByRule(data)) ELSE 0
    /\ op = "transport_private_data_len" =>
           ret.val = IF has_transport_private_data(data)
                     THEN At(data, PrivateLenOffsetByRule(data)) ELSE 0
    /\ op = "transport_private_data" =>
           IF has_transport_private_data(data)
           THEN LET at == PrivateLenOffsetByRule(data)
                    len == At(data, at)
                IN  at + 1 + len <= 188 =>
                        /\ ~ret.panic
                        /\ ret.val.from = at + 1
                        /\ ret.val.bytes = Slice(data, at + 1, at + 1 + len)
           ELSE ~ret.panic /\ ret.val.bytes = <<>>

\* The 42-bit clock of a six-byte window: (high * 2 + bit 15 of low) * 300
\* + (low & 0x1FF)
Pcr42(w) ==
    LET high == AsU64(read_u32(Slice(w, 0, 4)))
        low == read_u16(Slice(w, 4, 6))
        base == AddW(MulW(high, IntToW(2, 8)).val, IntToW(low \div 32768, 8)).val
    IN  AddW(MulW(base, IntToW(300, 8)).val, IntToW(low % 512, 8)).val

\* C6 (as claimed): pcr() is (high * 2 + bit 15 of low) * 300 + (low & 0x1FF)
\* of the window at byte 6 when has_pcr, and 0 otherwise.
C6_PcrDecoding ==
    op = "pcr" =>
        ret.val = IF has_pcr(data) THEN Pcr42(Slice(data, 6, 12)) ELSE ZeroW(8)

\* C7 (as claimed): opcr() is 0 when has_pcr is false, and otherwise the
\* decoding (read_pcr_data) of the six bytes right after the PCR, at byte 12.
C7_OpcrWindow ==
    op = "opcr" =>
        ret.val = IF has_pcr(data)
                  THEN read_pcr_data(Slice(data, 12, 18)) ELSE ZeroW(8)

\* (2^33 - 1) * 300 + 511
MaxPcr42 == <<0, 0, 2, 88, 0, 0, 0, 211>>

\* C8 (as claimed): for every tick count of a 42-bit PCR the conversion stays
\* within 64 bits and returns floor(ticks * 1_000_000_000 / 27_000_000).
C8_NanosExact ==
    (op \in {"pcr_nanos", "opcr_nanos"} /\ LeqW(arg.ticks, MaxPcr42)) =>
        /\ ~ret.panic
        /\ ZeroW(8) \o ret.val = DivW(MulFull(arg.ticks, Billion), 27000000)

-----------------------------------------------------------------------------
(* PSI: checksum, synthesis and the walk over the tables of a payload.     *)

MaxCrcBody == 2
MaxPrograms == 2
MaxStreams == 2

\* summed bytes: bit 7 set and clear, bit 0 set and clear
CrcBodyBytes == {0, 1, 128, 255}

\* the four bytes calc_crc32 leaves out
CrcTrailers == {<<0, 0, 0, 0>>, <<255, 255, 255, 255>>, <<222, 173, 190, 239>>}

Seqs(S, max) == UNION {[1 .. n -> S] : n \in 0 .. max}

\* the PAT and PMT sections of the lib.rs fixtures, as validate_pat and
\* validate_pmt get them: pkt.tables().unwrap().section_data()
FixtureSections ==
    {section_data(tables(d).val.val).val : d \in {PatFixture, PmtFixture}}

\* slices of four bytes or more, slices too short to hold a trailer, and the
\* fixture sections
CrcInputs ==
    {Tuple(b \o t, Len(b) + 4) : b \in Seqs(CrcBodyBytes, MaxCrcBody),
                                 t \in CrcTrailers}
        \cup {Tuple(b, Len(b)) : b \in Seqs({0, 255}, 3)}
        \cup FixtureSections

PatPidInputs == {123, 8191, 65535}

\* n program map PIDs that all differ
PatternPids(n) == Tuple([i \in 1 .. n |-> 32 * i + 1], n)

\* PID lists up to MaxPrograms, the longest list that fits (11) and the first
\* that does not (12)
PidLists ==
    {Tuple(l, Len(l)) : l \in Seqs(PatPidInputs, MaxPrograms)}
        \cup {PatternPids(11), PatternPids(12)}

StreamInputs == {<<256, 27>>, <<8191, 15>>}

\* n (pid, stream type) pairs that all differ
PatternStreams(n) == Tuple([i \in 1 .. n |-> <<256 + i, 1 + (i % 2)>>], n)

\* stream lists up to MaxStreams, the longest list that fits (33) and the
\* first that does not (34)
StreamLists ==
    {Tuple(l, Len(l)) : l \in Seqs(StreamInputs, MaxStreams)}
        \cup {PatternStreams(33), PatternStreams(34)}

PsiBuffers == {PatFixture, PmtFixture}

CreatePatPacket ==
    /\ origin.by = "none"
    /\ \E pids \in PidLists, c \in CcInputs :
          /\ arg' = [pids |-> pids, cc |-> c]
          /\ ret' = create_pat_packet(pids, c)
    /\ data' = IF ret'.panic THEN data ELSE ret'.val
    /\ origin' = [by |-> "create_pat_packet", args |-> arg']
    /\ op' = "create_pat_packet"
    /\ view' = None
    /\ nth' = 0

CreatePmtPacket ==
    /\ origin.by = "none"
    /\ \E pd \in {256, 8191}, pairs \in StreamLists, c \in CcInputs :
          /\ arg' = [pid |-> pd, pairs |-> pairs, cc |-> c]
          /\ ret' \in create_pmt_packet(pd, pairs, c)
    /\ data' = IF ret'.panic THEN data ELSE ret'.val
    /\ origin' = [by |-> "create_pmt_packet", args |-> arg']
    /\ op' = "create_pmt_packet"
    /\ view' = None
    /\ nth' = 0

NewPsi == NewFrom(PsiBuffers)

\* The slice a caller holds, and the walk it belongs to
Viewed(kind, option) ==
    IF option.some
    THEN [some |-> TRUE, val |-> option.val, kind |-> kind]
    ELSE None

\* pkt.tables(): the caller keeps the slice it gets
Tables ==
    /\ op' = "tables"
    /\ arg' = <<>>
    /\ ret' = tables(data)
    /\ view' = IF ret'.panic THEN None ELSE Viewed("table", ret'.val)
    /\ nth' = 0
    /\ UNCHANGED <<data, origin>>

\* view.next(): the caller moves on to the slice it gets
NextTable ==
    /\ view.some /\ view.kind = "table"
    /\ op' = "next"
    /\ arg' = view.val
    /\ ret' = next(view.val)
    /\ view' = IF ret'.panic THEN None ELSE Viewed("table", ret'.val)
    /\ nth' = nth + 1
    /\ UNCHANGED <<data, origin>>

\* calc_crc32(section) and section.crc32() for section = view.section_data()
SectionCrc ==
    /\ view.some /\ view.kind = "table"
    /\ op' = "section_crc"
    /\ arg' = section_data(view.val)
    /\ ret' = IF arg'.panic \/ crc32(arg'.val).panic THEN Panic
              ELSE Ok([calc |-> calc_crc32(arg'.val),
                       stored |-> crc32(arg'.val).val])
    /\ UNCHANGED <<data, origin, view, nth>>

\* the header and syntax-section fields of view and of view.section_data()
DecodeSection ==
    /\ view.some /\ view.kind = "table"
    /\ op' = "decode_section"
    /\ arg' = section_data(view.val)
    /\ ret' = IF arg'.panic \/ Len(arg'.val) < 8 THEN Panic
              ELSE Ok([table_id |-> table_id(view.val),
                       has_syntax_section |-> has_syntax_section(view.val),
                       section_length |-> section_length(view.val),
                       table_id_ext |-> table_id_ext(arg'.val),
                       valid_syntax |-> valid_syntax(arg'.val),
                       version |-> version(arg'.val),
                       current |-> current(arg'.val)])
    /\ UNCHANGED <<data, origin, view, nth>>

\* the PAT fields of view.section_data().table_data()
DecodePat ==
    /\ view.some /\ view.kind = "table"
    /\ op' = "decode_pat"
    /\ arg' = IF section_data(view.val).panic THEN Panic
              ELSE table_data(section_data(view.val).val)
    /\ ret' = IF arg'.panic \/ Len(arg'.val) < 4 THEN Panic
              ELSE Ok([valid_pat |-> valid_pat(arg'.val),
                       program_num |-> program_num(arg'.val),
                       program_map_pid |-> program_map_pid(arg'.val)])
    /\ UNCHANGED <<data, origin, view, nth>>

\* view.section_data().table_data().elementary_streams(): the caller keeps
\* the slice it gets
ElementaryStreams ==
    /\ view.some /\ view.kind = "table"
    /\ op' = "elementary_streams"
    /\ arg' = IF section_data(view.val).panic THEN Panic
              ELSE table_data(section_data(view.val).val)
    /\ ret' = IF arg'.panic THEN Panic ELSE elementary_streams(arg'.val)
    /\ view' = IF ret'.panic THEN None ELSE Viewed("stream", Some(ret'.val))
    /\ nth' = 0
    /\ UNCHANGED <<data, origin>>

\* view.next_stream(): the caller moves on to the slice it gets
NextStream ==
    /\ view.some /\ view.kind = "stream"
    /\ op' = "next_stream"
    /\ arg' = view.val
    /\ ret' = next_stream(view.val)
    /\ view' = IF ret'.panic THEN None ELSE Viewed("stream", ret'.val)
    /\ nth' = nth + 1
    /\ UNCHANGED <<data, origin>>

\* the fields of the elementary-stream entry at the start of view
DecodeStream ==
    /\ view.some /\ view.kind = "stream"
    /\ op' = "decode_stream"
    /\ arg' = view.val
    /\ ret' = IF Len(view.val) < 5 THEN Panic
              ELSE Ok([valid_stream |-> valid_stream(view.val),
                       stream_type |-> stream_type(view.val),
                       stream_pid |-> stream_pid(view.val),
                       es_info_len |-> es_info_len(view.val)])
    /\ UNCHANGED <<data, origin, view, nth>>

NextPsi ==
    \/ CreatePatPacket
    \/ CreatePmtPacket
    \/ NewPsi
    \/ Tables
    \/ NextTable
    \/ SectionCrc
    \/ DecodeSection
    \/ DecodePat
    \/ ElementaryStreams
    \/ NextStream
    \/ DecodeStream

SpecPsi == Init /\ [][NextPsi]_vars

-----------------------------------------------------------------------------
(* Claims on synthesized sections.                                         *)

\* C10: for each of the N sections of a frame made by create_pat_packet, and
\* for the section of a frame made by create_pmt_packet from a stream list
\* that fits (at most 33 streams), calc_crc32 of the section that
\* section_data() returns equals what crc32() reads from its last four bytes.
C10_CrcStamped ==
    (/\ op = "section_crc"
     /\ \/ /\ origin.by = "create_pat_packet"
           /\ nth < Len(origin.args.pids)
        \/ /\ origin.by = "create_pmt_packet"
           /\ nth = 0
           /\ Len(origin.args.pairs) <= 33)
        => /\ ~ret.panic
           /\ ret.val.calc = ret.val.stored

\* C10 witness: the check of the eleventh section of an eleven-program PAT
C10_Witness ==
    /\ op = "section_crc"
    /\ origin.by = "create_pat_packet"
    /\ Len(origin.args.pids) = 11
    /\ nth = 10
    /\ ~ret.panic
    /\ Len(arg.val) = 16
    /\ ret.val.calc = ret.val.stored

\* a PAT synthesized from 1..11 PIDs of at most 13 bits and a 4-bit cc
PatInScope ==
    /\ origin.by = "create_pat_packet"
    /\ Len(origin.args.pids) \in 1 .. 11
    /\ \A i \in 1 .. Len(origin.args.pids) : origin.args.pids[i] <= 8191
    /\ origin.args.cc \in 0 .. 15

\* C11: the packet of create_pat_packet for N PIDs (1 <= N <= 11, each at most
\* 0x1FFF) and a cc in 0..15 has pid 0, pusi set, afc 1 and the given cc;
\* tables() and then next() yield exactly N sections and then none; section i
\* has table_id 0, a syntax section, section_length 13, table_id_ext 1, valid
\* syntax, version 0, current set, and its table_data is a valid PAT entry with
\* program_num i and program_map_pid pids[i].
C11_PatRoundTrip ==
    PatInScope =>
        LET pids == origin.args.pids
        IN  /\ op = "create_pat_packet" =>
                   /\ ~ret.panic
                   /\ pid(header(data)) = 0
                   /\ pusi(header(data))
                   /\ afc(header(data)) = 1
                   /\ cc(header(data)) = origin.args.cc
            /\ op = "tables" =>
                   /\ ~ret.panic
                   /\ ret.val.some
            /\ op = "next" =>
                   /\ ~ret.panic
                   /\ ret.val.some <=> nth < Len(pids)
            /\ (op = "decode_section" /\ nth < Len(pids)) =>
                   /\ ~ret.panic
                   /\ Len(arg.val) = 16
                   /\ ret.val = [table_id |-> 0, has_syntax_section |-> TRUE,
                                 section_length |-> 13, table_id_ext |-> 1,
                                 valid_syntax |-> TRUE, version |-> 0,
                                 current |-> TRUE]
            /\ (op = "decode_pat" /\ nth < Len(pids)) =>
                   /\ ~ret.panic
                   /\ ret.val = [valid_pat |-> TRUE, program_num |-> nth + 1,
                                 program_map_pid |-> pids[nth + 1]]

\* C11 witness: the eleventh entry of an eleven-program PAT, decoded
C11_Witness ==
    /\ PatInScope
    /\ op = "decode_pat"
    /\ Len(origin.args.pids) = 11
    /\ nth = 10
    /\ ~ret.panic
    /\ ret.val.program_num = 11
    /\ ret.val.program_map_pid = origin.args.pids[11]

\* a PMT synthesized from 1..33 streams with PIDs of at most 13 bits and
\* stream types other than the filler 0xFF
PmtInScope ==
    /\ origin.by = "create_pmt_packet"
    /\ Len(origin.args.pairs) \in 1 .. 33
    /\ \A i \in 1 .. Len(origin.args.pairs) :
          /\ origin.args.pairs[i][1] <= 8191
          /\ origin.args.pairs[i][2] # 255

\* C12 (as claimed): decoding the packet of create_pmt_packet for N streams
\* (1 <= N <= 33) through tables(), section_data(), table_data() and
\* elementary_streams(), then next_stream() repeatedly, yields exactly N
\* entries and then none; entry i is a valid stream with the i-th stream type,
\* the i-th PID and es_info_len 0.
C12_PmtRoundTrip ==
    PmtInScope =>
        LET pairs == origin.args.pairs
        IN  /\ op = "elementary_streams" => ~ret.panic
            /\ (op = "decode_stream" /\ nth < Len(pairs)) =>
                   /\ ~ret.panic
                   /\ ret.val = [valid_stream |-> TRUE,
                                 stream_type |-> pairs[nth + 1][2],
                                 stream_pid |-> pairs[nth + 1][1],
                                 es_info_len |-> 0]
            /\ op = "next_stream" =>
                   /\ ~ret.panic
                   /\ ret.val.some <=> nth < Len(pairs)

\* C17 (as claimed): a packet returned by create_pat_packet for count PIDs
\* has the pointer 188 - 5 - 16 * count in byte 4, 0xFF from byte 5 up to the
\* first section, count sections of 16 bytes in the last 16 * count bytes and
\* the four header bytes of create_packet; with more than 11 PIDs, and
\* create_pmt_packet with more than 33 streams, no frame is returned.
C17_LayoutAndCapacity ==
    /\ (op = "create_pat_packet" /\ ~ret.panic) =>
           LET count == Len(arg.pids)
               first == 188 - 16 * count
           IN  /\ count <= 11
               /\ At(data, 4) = 188 - 5 - 16 * count
               /\ \A i \in 5 .. first - 1 : At(data, i) = 255
               /\ \A k \in 0 .. count - 1 :
                      LET s == Slice(data, first + 16 * k, first + 16 * k + 16)
                      IN  table_id(s) = 0 /\ section_length(s) = 13
               /\ Slice(data, 0, 4)
                      = Slice(create_packet(FALSE, TRUE, FALSE, 0, 0, 1,
                                            arg.cc), 0, 4)
    /\ (op = "create_pat_packet" /\ Len(arg.pids) > 11) => ret.panic
    /\ (op = "create_pmt_packet" /\ Len(arg.pairs) > 33) => ret.panic

-----------------------------------------------------------------------------
(* calc_crc32 as a function of a caller's slice.                           *)

InitCrc ==
    /\ data = Tuple([i \in 1 .. PacketLen |-> 0], PacketLen)
    /\ origin = [by |-> "none", args |-> <<>>]
    /\ view = None
    /\ nth = 0
    /\ op = "init"
    /\ arg \in CrcInputs
    /\ ret = Ok(<<>>)

CalcCrc32 ==
    /\ op = "init"
    /\ op' = "calc_crc32"
    /\ ret' = Ok(calc_crc32(arg))
    /\ UNCHANGED <<data, origin, view, nth, arg>>

NextCrc == CalcCrc32

SpecCrc == InitCrc /\ [][NextCrc]_vars

-----------------------------------------------------------------------------
(* Claims on calc_crc32.                                                   *)

\* The MPEG-2 CRC-32 as a polynomial remainder: the message, most significant
\* bit of each byte first, followed by 32 zero bits and with its first 32 bits
\* inverted (the initial value 0xFFFFFFFF), is divided by
\* x^32 + 0x04C11DB7; no reflection, no final XOR.
Bits(bytes) ==
    Tuple([i \in 1 .. 8 * Len(bytes) |->
              (bytes[((i - 1) \div 8) + 1] \div Pow2(7 - ((i - 1) % 8))) % 2],
          8 * Len(bytes))

Bytes32(bits) ==
    Tuple([j \in 1 .. 4 |->
              128 * bits[8 * j - 7] + 64 * bits[8 * j - 6]
              + 32 * bits[8 * j - 5] + 16 * bits[8 * j - 4]
              + 8 * bits[8 * j - 3] + 4 * bits[8 * j - 2]
              + 2 * bits[8 * j - 1] + bits[8 * j]],
          4)

Reg32 == [1 .. 32 -> {0, 1}]

RefPolyBits == Bits(<<4, 193, 29, 183>>)

XorBits(a, b) == Tuple([i \in 1 .. 32 |-> (a[i] + b[i]) % 2], 32)

\* one division step: shift the next message bit in, subtract the divisor if a
\* one was shifted out
RefStep(reg, bit) ==
    IF reg[1] = 1
    THEN XorBits(Tail(reg) \o <<bit>>, RefPolyBits)
    ELSE Tail(reg) \o <<bit>>

\* the division steps for bits[from .. to - 1]
RECURSIVE RefDivide(_, _, _, _)
RefDivide(reg, bits, from, to) ==
    IF from >= to \/ reg \notin Reg32 THEN reg
    ELSE IF to - from = 1 THEN RefStep(reg, bits[from])
    ELSE LET mid == (from + to) \div 2
         IN  RefDivide(RefDivide(reg, bits, from, mid), bits, mid, to)

RefSeeded(msg) ==
    Tuple([i \in 1 .. Len(msg) |-> IF i <= 32 THEN 1 - msg[i] ELSE msg[i]],
          Len(msg))

RefCrc(message) ==
    LET seeded == RefSeeded(Bits(message \o <<0, 0, 0, 0>>))
    IN  Bytes32(RefDivide(Tuple([i \in 1 .. 32 |-> 0], 32), seeded, 1,
                          Len(seeded) + 1))

\* C9: for a slice of n >= 4 bytes calc_crc32 is the MPEG-2 CRC-32 of its first
\* n - 4 bytes (so the last four bytes do not matter), for a shorter slice it
\* is 0, and on the fixture PAT and PMT sections it is the stored trailer.
C9_CrcReference ==
    op = "calc_crc32" =>
        /\ ~ret.panic
        /\ ret.val = IF Len(arg) >= 4
                     THEN RefCrc(Slice(arg, 0, Len(arg) - 4))
                     ELSE <<0, 0, 0, 0>>
        /\ arg \in FixtureSections =>
               ret.val = Slice(arg, Len(arg) - 4, Len(arg))

\* C9 witness: the checksum of the fixture PAT section is its trailer 2AB104B2
C9_Witness ==
    /\ op = "calc_crc32"
    /\ arg = Slice(PatFixture, 5, 21)
    /\ arg \in FixtureSections
    /\ ret.val = <<42, 177, 4, 178>>

-----------------------------------------------------------------------------
(* next, next_program and next_stream as functions of a caller's slice.    *)
(* The three traits are implemented for &[u8], so any slice can be walked. *)

MaxViewLen == 8

\* zero and one as lengths and ids, the filler 0xFF
ChainBytes == {0, 1, 255}
ChainViews == Seqs(ChainBytes, MaxViewLen)

InitChain ==
    /\ data = Tuple([i \in 1 .. PacketLen |-> 0], PacketLen)
    /\ origin = [by |-> "slice", args |-> <<>>]
    /\ \E s \in ChainViews : view = Viewed("slice", Some(s))
    /\ nth = 0
    /\ op = "init"
    /\ arg = <<>>
    /\ ret = Ok(<<>>)

\* one call on the slice the caller holds; the caller keeps what it gets
Walk(name, result) ==
    /\ view.some /\ view.kind = "slice"
    /\ op' = name
    /\ arg' = view.val
    /\ ret' = result
    /\ view' = IF result.panic THEN None ELSE Viewed("slice", result.val)
    /\ UNCHANGED <<data, origin, nth>>

SliceNext == Walk("next", next(view.val))
SliceNextProgram == Walk("next_program", Ok(next_program(view.val)))
SliceNextStream == Walk("next_stream", next_stream(view.val))

NextChain ==
    \/ SliceNext
    \/ SliceNextProgram
    \/ SliceNextStream

SpecChain == InitChain /\ [][NextChain]_vars

-----------------------------------------------------------------------------
(* Claims on chain iteration.                                              *)

\* Where the entry after the current one starts, by the format: a section is
\* 3 + section_length bytes, a PAT entry 4, an elementary stream
\* 5 + ES_info_length; a slice too short to hold its own lengths has nothing
\* after it
FollowingAt(name, s) ==
    CASE name = "next" ->
             IF Len(s) < 3 THEN Len(s) ELSE 3 + section_length(s)
      [] name = "next_program" -> 4
      [] name = "next_stream" ->
             IF Len(s) < 5 THEN Len(s) ELSE 5 + es_info_len(s)

\* C16 (as claimed): on every slice, next, next_program and next_stream
\* return none when no byte of a further entry remains or when the byte at
\* the start of the following entry is 0xFF, and the slice from the
\* following entry otherwise; what they return is strictly shorter than
\* the slice they were called on.
C16_ChainStops ==
    (origin.by = "slice" /\ op \in {"next", "next_program", "next_stream"}) =>
        LET at == FollowingAt(op, arg)
        IN  /\ ~ret.panic
            /\ ret.val = IF Len(arg) <= at \/ At(arg, at) = 255
                         THEN None
                         ELSE Some(Slice(arg, at, Len(arg)))
            /\ ret.val.some => Len(ret.val.val) < Len(arg)


=============================================================================
